---- MODULE Spec2Model ----
(***************************************************************************)
(* Model of the fioc-codegen pipeline: collectTokens, autoDetectTokens,    *)
(* collectFactories, generateTokens, generateFactories,                    *)
(* generateContainers and the final save of run().                         *)
(*                                                                         *)
(* The input (the ts-morph project) is modelled at the level of the        *)
(* queries the code makes: a source file is its lists of type aliases,     *)
(* interfaces, classes, functions, variable declarations and namespaces;   *)
(* a type is what Type.getSymbol / getText / getTypeArguments /            *)
(* getBaseTypes answer for it.                                             *)
(***************************************************************************)
EXTENDS Integers, Sequences, FiniteSets, TLC

\* ------------------------------------------------------------------ bounds
\* longest list of type declarations drawn from a pool
MaxTypeDecls == 2
\* longest list of injectable declarations drawn from a pool
MaxFactories == 2

\* ------------------------------------------------------- generic helpers
Range(s) == {s[i] : i \in 1..Len(s)}

Contains(s, e) == \E i \in 1..Len(s) : s[i] = e

RECURSIVE Dedup(_)
\* [...new Set(list)]: first occurrences, in order
Dedup(s) ==
  IF s = <<>> THEN <<>>
  ELSE LET r == Dedup(SubSeq(s, 1, Len(s) - 1))
           e == s[Len(s)]
       IN IF Contains(r, e) THEN r ELSE Append(r, e)

RECURSIVE Flatten(_)
Flatten(ss) == IF ss = <<>> THEN <<>> ELSE Head(ss) \o Flatten(Tail(ss))

RECURSIVE JoinWith(_, _)
\* Array.prototype.join
JoinWith(s, sep) ==
  IF s = <<>> THEN ""
  ELSE IF Len(s) = 1 THEN s[1]
  ELSE s[1] \o sep \o JoinWith(Tail(s), sep)

RECURSIVE InjSeqs(_, _)
\* the sequences without repetition over S, of length 0..n
InjSeqs(S, n) ==
  IF n = 0 THEN {<<>>}
  ELSE LET shorter == InjSeqs(S, n - 1)
           longest == {t \in shorter : Len(t) = n - 1}
       IN shorter \cup UNION {{Append(t, e) : e \in S \ Range(t)} : t \in longest}

\* ---------------------------------------------------------------- config
SRC_DIR == <<"src">>
IOC_DIR == SRC_DIR \o <<"ioc">>
TOKENS_FILE == [dirs |-> IOC_DIR, base |-> "tokens", ext |-> "ts"]
FACTORIES_FILE == [dirs |-> IOC_DIR, base |-> "factories", ext |-> "ts"]
CONTAINERS_DIR == IOC_DIR \o <<"containers">>
USE_JS_EXTENSIONS == TRUE
\* module names are sequences of one-character strings
DEFAULT_MODULE == <<"d", "e", "f", "a", "u", "l", "t">>

\* ----------------------------------------------------------------- paths
RECURSIVE CommonPrefixLen(_, _)
CommonPrefixLen(a, b) ==
  IF a = <<>> \/ b = <<>> \/ Head(a) # Head(b) THEN 0
  ELSE 1 + CommonPrefixLen(Tail(a), Tail(b))

\* path.relative(path.dirname(fromFile), toFile), .ts replaced, "./" prefixed
getRelativePath(fromFile, toFile) ==
  LET c    == CommonPrefixLen(fromFile.dirs, toFile.dirs)
      ups  == [i \in 1..(Len(fromFile.dirs) - c) |-> ".."]
      down == SubSeq(toFile.dirs, c + 1, Len(toFile.dirs))
      pathWithoutTs == JoinWith(ups \o down \o <<toFile.base>>, "/")
      withTs == IF toFile.ext = "ts" THEN pathWithoutTs
                ELSE pathWithoutTs \o "." \o toFile.ext
      finalPath == IF USE_JS_EXTENSIONS THEN withTs \o ".js" ELSE withTs
  IN "./" \o finalPath

getRelativePathFromTokens(filePath) == getRelativePath(TOKENS_FILE, filePath)

getRelativePathFromFactories(filePath) == getRelativePath(FACTORIES_FILE, filePath)

\* ------------------------------------------------------------ JSDoc tags
\* String.prototype.toLowerCase on the tag names that occur
ToLowerTag(t) ==
  CASE t = "Service" -> "service"
    [] t = "MultiService" -> "multiservice"
    [] t = "Token" -> "token"
    [] t = "Injectable" -> "injectable"
    [] t = "Singleton" -> "singleton"
    [] t = "Scoped" -> "scoped"
    [] t = "Module" -> "module"
    [] OTHER -> t

hasTag(node, tag) == \E t \in node.tags : ToLowerTag(t) = ToLowerTag(tag)

\* the parent of a VariableDeclaration is its declaration list
hasTagOnVar(node, tag) == \E t \in node.parentTags : ToLowerTag(t) = ToLowerTag(tag)

NoModule == <<>>

RECURSIVE TrimLeft(_)
TrimLeft(s) == IF s # <<>> /\ Head(s) = " " THEN TrimLeft(Tail(s)) ELSE s

RECURSIVE TrimRight(_)
TrimRight(s) ==
  IF s # <<>> /\ s[Len(s)] = " " THEN TrimRight(SubSeq(s, 1, Len(s) - 1)) ELSE s

\* getTagValue(node, "Module"): comment?.trim() || null  (null is <<>>)
getTagValue(node) == TrimRight(TrimLeft(node.moduleTag))

getModuleName(node) ==
  IF getTagValue(node) # <<>> THEN getTagValue(node) ELSE DEFAULT_MODULE

\* a getLifecycle that looks for @Scoped first
getLifecycleScopedFirst(node) ==
  IF hasTag(node, "Scoped") THEN "scoped"
  ELSE IF hasTag(node, "Singleton") THEN "singleton"
  ELSE "transient"

getLifecycle(node) ==
  IF hasTag(node, "Singleton") THEN "singleton"
  ELSE IF hasTag(node, "Scoped") THEN "scoped"
  ELSE "transient"

\* ----------------------------------------------------------------- types
NoFile == [dirs |-> <<>>, base |-> "", ext |-> ""]
FileA == [dirs |-> <<"src">>, base |-> "a", ext |-> "ts"]
FileB == [dirs |-> <<"src", "sub">>, base |-> "b", ext |-> "ts"]
LibFile == [dirs |-> <<"node_modules", "lib">>, base |-> "index.d", ext |-> "ts"]

\* a type with a named symbol declared in file: sym<args>, base types bases
Ty(sym, args, bases, file) ==
  [sym |-> sym,
   text |-> IF args = <<>> THEN <<sym>>
            ELSE <<sym, "<">> \o [i \in 1..Len(args) |-> args[i].sym] \o <<">">>,
   args |-> args, bases |-> bases, file |-> file, isObject |-> TRUE,
   callRets |-> <<>>]

Named(sym, file) == Ty(sym, <<>>, <<>>, file)

Prim(p) ==
  [sym |-> "", text |-> <<p>>, args |-> <<>>, bases |-> <<>>, file |-> NoFile,
   isObject |-> FALSE, callRets |-> <<>>]

\* an inline object literal type; TypeScript names its symbol "__type"
InlineObj ==
  [sym |-> "__type", text |-> <<"{", "id", ":", "string", "}">>, args |-> <<>>,
   bases |-> <<>>, file |-> NoFile, isObject |-> TRUE, callRets |-> <<>>]

RECURSIVE IndexOfFirst(_, _, _)
IndexOfFirst(s, e, i) ==
  IF i > Len(s) THEN 0 ELSE IF s[i] = e THEN i ELSE IndexOfFirst(s, e, i + 1)

RECURSIVE IndexOfLast(_, _, _)
IndexOfLast(s, e, i) ==
  IF i < 1 THEN 0 ELSE IF s[i] = e THEN i ELSE IndexOfLast(s, e, i - 1)

\* text.replace(/<.*>/, ""): the greedy match from the first "<" to the last ">"
StripGenerics(text) ==
  LET lo == IndexOfFirst(text, "<", 1)
      hi == IndexOfLast(text, ">", Len(text))
  IN IF lo = 0 \/ hi = 0 \/ hi < lo THEN text
     ELSE SubSeq(text, 1, lo - 1) \o SubSeq(text, hi + 1, Len(text))

\* the lexemes of getTypeName(type)
TypeNameLex(type) ==
  IF type.sym # "" /\ type.sym # "__type" THEN <<type.sym>>
  ELSE StripGenerics(type.text)

getTypeName(type) == JoinWith(TypeNameLex(type), "")

isPrimitive(name) ==
  name \in {"string", "number", "boolean", "any", "void", "unknown"}

\* symbol?.getName() || ""
SymbolName(type) == type.sym

\* --------------------------------------------------- the resolution state
\* A JavaScript Map is a sequence of entries in insertion order.
MapHas(m, k) == \E i \in 1..Len(m) : m[i].name = k

\* Map.get; undefined is ""
MapGet(m, k) ==
  IF MapHas(m, k) THEN m[CHOOSE i \in 1..Len(m) : m[i].name = k].token ELSE ""

\* a registry kept as a list of entries: set() pushes without looking the key up
MapSetAppend(m, k, v) == Append(m, [name |-> k, token |-> v])

\* Map.set: an existing key keeps its position
MapSet(m, k, v) ==
  IF MapHas(m, k)
  THEN [i \in 1..Len(m) |-> IF m[i].name = k THEN [name |-> k, token |-> v] ELSE m[i]]
  ELSE Append(m, [name |-> k, token |-> v])

MapKeys(m) == {m[i].name : i \in 1..Len(m)}

MapValues(m) == [i \in 1..Len(m) |-> m[i].token]

\* `${name}Token`
TokenName(name) == name \o "Token"

\* addTokenImport / addFactoryImport on a Map<file, Set<name>>
addImport(imports, file, name) ==
  IF \E i \in 1..Len(imports) : imports[i].file = file
  THEN [i \in 1..Len(imports) |->
          IF imports[i].file = file /\ ~Contains(imports[i].names, name)
          THEN [imports[i] EXCEPT !.names = Append(@, name)]
          ELSE imports[i]]
  ELSE Append(imports, [file |-> file, names |-> <<name>>])

NoErr == [kind |-> "none", context |-> "", named |-> <<>>]

\* the part of GeneratorState a helper reads and writes, with the helper's
\* return value (ret), the tokens collected by a map/forEach (out), the
\* implements list being built (impl) and a thrown Error (err)
Ctx(toks, imps) ==
  [tokens |-> toks, tokensImports |-> imps, err |-> NoErr, ret |-> "",
   out |-> <<>>, impl |-> <<>>]

InlineError(context, lex) == [kind |-> "inline", context |-> context, named |-> lex]

\* ensureToken from "let tokenName = state.tokens.get(name)" on
ensureTokenMint(c, type, name, existing) ==
  [c EXCEPT
     !.tokens = IF existing = "" THEN MapSet(@, name, TokenName(name)) ELSE @,
     !.tokensImports = IF type.file # NoFile /\ ~Contains(type.file.dirs, "node_modules")
                       THEN addImport(@, getRelativePathFromTokens(type.file), name)
                       ELSE @,
     !.ret = IF existing = "" THEN TokenName(name) ELSE existing]

\* an ensureToken without the check of the name for braces
ensureTokenNamedUnchecked(c, type, context, lex, name) ==
  IF name = "" \/ isPrimitive(name) THEN [c EXCEPT !.ret = ""]
  ELSE ensureTokenMint(c, type, name, MapGet(c.tokens, name))

\* ensureToken from "if (!name || isPrimitive(name))" on
ensureTokenNamed(c, type, context, lex, name) ==
  IF name = "" \/ isPrimitive(name) THEN [c EXCEPT !.ret = ""]
  ELSE IF Contains(lex, "{") \/ Contains(lex, "}")
  THEN [c EXCEPT !.err = InlineError(context, lex), !.ret = ""]
  ELSE ensureTokenMint(c, type, name, MapGet(c.tokens, name))

\* a context whose err is set stands for the exception propagating
ensureToken(c, type, context) ==
  IF c.err.kind # "none" THEN c
  ELSE IF type.isObject /\ type.sym = ""
          /\ Contains(type.text, "{") /\ Contains(type.text, "}")
  THEN [c EXCEPT !.err = InlineError(context, type.text), !.ret = ""]
  ELSE ensureTokenNamed(c, type, context, TypeNameLex(type), getTypeName(type))

\* a push that keeps the list free of duplicates
PushRetOnce(c) ==
  IF c.err.kind = "none" /\ c.ret # "" /\ ~Contains(c.out, c.ret)
  THEN [c EXCEPT !.out = Append(@, c.ret)] ELSE c

\* "if (token) list.push(token)"
PushRet(c) ==
  IF c.err.kind = "none" /\ c.ret # "" THEN [c EXCEPT !.out = Append(@, c.ret)] ELSE c

RECURSIVE EnsureAll(_, _, _)
\* types.map/forEach(t => ensureToken(state, t, context)), the tokens kept in out
EnsureAll(c, types, context) ==
  IF types = <<>> \/ c.err.kind # "none" THEN c
  ELSE EnsureAll(PushRet(ensureToken(c, Head(types), context)), Tail(types), context)

\* one "has a token -> push to implements, collect its generic arguments"
\* block of extractMetadata; unlessListed is the !implementsTokens.includes
\* test of the return-type blocks
MetaVisitToken(c, type, typeName, typeToken, unlessListed) ==
  IF typeToken # "" /\ ~(unlessListed /\ Contains(c.impl, typeToken))
  THEN EnsureAll([c EXCEPT !.impl = Append(@, typeToken)], type.args,
                 typeName \o " generic")
  ELSE c

MetaVisit(c, type, unlessListed) ==
  IF c.err.kind # "none" THEN c
  ELSE MetaVisitToken(c, type, getTypeName(type), MapGet(c.tokens, getTypeName(type)),
                      unlessListed)

RECURSIVE MetaVisitAll(_, _, _)
MetaVisitAll(c, types, unlessListed) ==
  IF types = <<>> THEN c
  ELSE MetaVisitAll(MetaVisit(c, Head(types), unlessListed), Tail(types), unlessListed)

RECURSIVE MetaCallRets(_, _)
\* the return types of the declarations of the type's symbol that have a
\* call signature, and the base types of those return types
MetaCallRets(c, rets) ==
  IF rets = <<>> THEN c
  ELSE MetaCallRets(MetaVisitAll(MetaVisit(c, Head(rets), TRUE), Head(rets).bases, TRUE),
                    Tail(rets))

MetaOfSymbol(c, type) == IF type.sym # "" THEN MetaCallRets(c, type.callRets) ELSE c

MetaResult(c) == [c EXCEPT !.impl = Dedup(@), !.out = Dedup(@)]

\* the result is in impl (implements) and out (generics)
extractMetadata(c, type) ==
  MetaResult(
    MetaOfSymbol(
      MetaVisitAll(MetaVisit([c EXCEPT !.impl = <<>>, !.out = <<>>], type, FALSE),
                   type.bases, FALSE),
      type))

\* ------------------------------------------------------------- the input
\* A declaration node.  ext: the alias target (one type) or the extends
\* clause; params: the parameters (constructor parameters for a class);
\* sigs: the return types of the call signatures of node.getType();
\* self: node.getType() of a class; parentTags: JSDoc tags of getParent()
\* (a variable declaration list carries none); stmt*: the JSDoc of the
\* variable statement.
Decl(kind, name, tags, ext) ==
  [kind |-> kind, name |-> name, exported |-> TRUE, tags |-> tags,
   moduleTag |-> NoModule, ext |-> ext, params |-> <<>>, sigs |-> <<>>,
   self |-> Prim("any"), parentTags |-> {}, stmtTags |-> {},
   stmtModuleTag |-> NoModule, initIsFn |-> FALSE]

Fn(name, tags, moduleTag, params, sigs) ==
  [Decl("fn", name, tags, <<>>) EXCEPT
     !.moduleTag = moduleTag, !.params = params, !.sigs = sigs]

Class(name, tags, params, file) ==
  [Decl("class", name, tags, <<>>) EXCEPT
     !.params = params, !.self = Named(name, file)]

\* a declaration placed in a file, at top level or in the file's namespace
At(file, inNs, d) == [file |-> file, inNs |-> inNs, d |-> d]

OfKind(placed, file, inNs, kind) ==
  LET sel == SelectSeq(placed, LAMBDA x : x.file = file /\ x.inNs = inNs /\ x.d.kind = kind)
  IN [i \in 1..Len(sel) |-> sel[i].d]

Scope(placed, file, inNs) ==
  [typeAliases |-> OfKind(placed, file, inNs, "alias"),
   interfaces  |-> OfKind(placed, file, inNs, "iface"),
   classes     |-> OfKind(placed, file, inNs, "class"),
   functions   |-> OfKind(placed, file, inNs, "fn"),
   variables   |-> OfKind(placed, file, inNs, "var")]

\* a SourceFile: its path, its top-level lists and its namespaces
MkFile(placed, file) ==
  [path |-> file, top |-> Scope(placed, file, FALSE),
   namespaces |-> IF \E i \in 1..Len(placed) : placed[i].file = file /\ placed[i].inNs
                  THEN <<Scope(placed, file, TRUE)>> ELSE <<>>]

\* the files of the project, in getSourceFiles() order
MkProg(placed) == <<MkFile(placed, FileA), MkFile(placed, FileB)>>

\* ---- the types used by the inputs
tV == Named("V", LibFile)
tA == Named("A", FileA)
tB == Named("B", FileA)
tP == Named("P", FileA)
tH(arg, hfile) == Ty("H", <<arg>>, <<>>, hfile)

\* ---- family G: a generic @Service interface H and types derived from it
HDecl == Decl("iface", "H", {"Service"}, <<>>)

GPool(hfile) ==
  { Decl("iface", "A", {}, <<tH(tB, hfile)>>),
    Decl("iface", "B", {}, <<tH(tA, hfile)>>),
    Decl("iface", "A", {}, <<tH(tA, hfile)>>),
    Decl("alias", "U", {}, <<tH(tV, hfile)>>),
    Decl("alias", "U", {"Service"}, <<tH(tV, hfile)>>),
    Decl("iface", "A", {"Service"}, <<tH(tV, hfile)>>),
    Decl("iface", "B", {}, <<tA>>),
    Decl("iface", "B", {}, <<tA, tH(tV, hfile)>>) }

Layouts == {"Hfirst", "Hlast", "Hother"}

HFile(layout) == IF layout = "Hother" THEN FileB ELSE FileA

PlaceAll(seq, file) == [i \in 1..Len(seq) |-> At(file, FALSE, seq[i])]

\* the names the pool refers to are declared: plain exported interfaces
\* stand in for those the list does not declare
GFill(seq) ==
  LET declared == {seq[i].name : i \in 1..Len(seq)}
  IN (IF "A" \in declared THEN <<>> ELSE <<Decl("iface", "A", {}, <<>>)>>)
     \o (IF "B" \in declared THEN <<>> ELSE <<Decl("iface", "B", {}, <<>>)>>)

GTypes(layout, seq) ==
  IF layout = "Hfirst"
  THEN <<At(FileA, FALSE, HDecl)>> \o PlaceAll(seq \o GFill(seq), FileA)
  ELSE PlaceAll(seq \o GFill(seq), FileA) \o <<At(HFile(layout), FALSE, HDecl)>>

GFactories(hfile) ==
  { <<>>,
    <<At(FileA, FALSE, Fn("F", {"Injectable"}, NoModule, <<tV>>, <<tH(tV, hfile)>>))>> }

ProgramsG ==
  UNION { { MkProg(GTypes(layout, seq) \o fs) :
              seq \in InjSeqs(GPool(HFile(layout)), MaxTypeDecls),
              fs \in GFactories(HFile(layout)) } : layout \in Layouts }

\* ---- family R: several declarations of one name
RPool ==
  { At(FileA, FALSE, Decl("iface", "A", {"Service"}, <<>>)),
    At(FileA, FALSE, Decl("iface", "A", {"MultiService"}, <<>>)),
    At(FileB, FALSE, Decl("iface", "A", {"Service"}, <<>>)),
    At(FileA, TRUE,  Decl("iface", "A", {"MultiService"}, <<>>)),
    At(FileA, FALSE, [Decl("iface", "A", {"Service"}, <<>>) EXCEPT !.exported = FALSE]),
    At(FileA, FALSE, Decl("iface", "A", {"Token"}, <<>>)),
    At(FileB, FALSE, Decl("iface", "A", {"MultiService"}, <<>>)) }

\* the declared types a factory of family R refers to
RParams(seq) ==
  (IF seq = <<>> THEN <<>> ELSE <<Named("A", seq[1].file)>>)
  \o <<Named("B", FileB), Prim("string")>>

RFactory(seq) ==
  At(FileB, FALSE, Fn("F", {"Injectable"}, NoModule, RParams(seq), <<Named("B", FileB)>>))

ProgramsR ==
  { MkProg(seq \o <<At(FileB, FALSE, Decl("iface", "B", {}, <<>>)), RFactory(seq)>>) :
      seq \in InjSeqs(RPool, MaxTypeDecls) }

\* ---- family F: a @MultiService interface P, a @Service interface A, an
\* ---- interface B without annotation and injectable declarations
FTypes ==
  << At(FileA, FALSE, Decl("iface", "P", {"MultiService"}, <<>>)),
     At(FileA, FALSE, Decl("iface", "A", {"Service"}, <<>>)),
     At(FileA, FALSE, Decl("iface", "B", {}, <<>>)) >>

FPool ==
  { At(FileA, FALSE, Fn("X", {"Injectable"}, NoModule, <<>>, <<tP>>)),
    At(FileA, FALSE, Fn("Y", {"Injectable", "Scoped"}, <<"f", "e">>,
                        <<tV, Prim("string")>>, <<tP>>)),
    At(FileB, FALSE, Fn("X", {"Injectable"}, NoModule, <<>>, <<tP>>)),
    At(FileA, FALSE, Fn("P", {"Injectable"}, NoModule, <<>>, <<tP>>)),
    At(FileA, FALSE, Fn("F", {"Injectable"}, NoModule, <<>>, <<tA>>)),
    At(FileB, TRUE,  Class("C", {"Injectable", "Singleton"}, <<tA>>, FileB)),
    At(FileA, FALSE, Fn("I", {"Injectable"}, NoModule, <<tA, InlineObj>>, <<tA>>)),
    At(FileA, FALSE, [Decl("var", "W", {}, <<>>) EXCEPT
                        !.stmtTags = {"Injectable"}, !.sigs = <<tP>>,
                        !.initIsFn = TRUE]),
    At(FileA, FALSE, Fn("G", {"Injectable"}, NoModule, <<>>, <<tB>>)),
    At(FileA, FALSE, Fn("K", {"Injectable", "Singleton", "Scoped"}, NoModule,
                        <<tB, Prim("number"), tB>>, <<tA>>)),
    At(FileA, FALSE, Fn("R", {"Injectable"}, NoModule, <<>>, <<InlineObj>>)),
    At(FileA, FALSE, Fn("N", {"Injectable"}, NoModule, <<tB>>, <<>>)),
    At(FileA, FALSE, Fn("Z", {"Injectable"}, <<"F", "e">>, <<>>, <<tA>>)) }

ProgramsF == { MkProg(FTypes \o seq) : seq \in InjSeqs(FPool, MaxFactories) }

\* ---- the program of one @Service interface A and one factory F(): A
ProgramsA ==
  { MkProg(<< At(FileA, FALSE, Decl("iface", "A", {"Service"}, <<>>)),
              At(FileA, FALSE, Fn("F", {"Injectable"}, NoModule, <<>>, <<tA>>)) >>) }

Programs == ProgramsG \cup ProgramsR \cup ProgramsF \cup ProgramsA

\* ---- the work lists of the three collection passes
ScopeTypes(sc) == sc.typeAliases \o sc.interfaces \o sc.classes

ScopeCallables(sc) == sc.functions \o sc.classes \o sc.variables

Items(nodes, file, inNs) ==
  [i \in 1..Len(nodes) |-> [file |-> file, inNs |-> inNs, node |-> nodes[i]]]

\* collectTokens: per file, the top-level types, then each namespace's
TokenWorkOf(f) ==
  Items(ScopeTypes(f.top), f.path, FALSE)
  \o Flatten([i \in 1..Len(f.namespaces) |->
                Items(ScopeTypes(f.namespaces[i]), f.path, TRUE)])

TokenWork(p) == Flatten([i \in 1..Len(p) |-> TokenWorkOf(p[i])])

\* autoDetectTokens: per file, the top-level aliases, then the interfaces
DetectWork(p) ==
  Flatten([i \in 1..Len(p) |->
             Items(p[i].top.typeAliases \o p[i].top.interfaces, p[i].path, FALSE)])

\* collectFactories: per file, functions, classes, variables, then each namespace's
FactoryWorkOf(f) ==
  Items(ScopeCallables(f.top), f.path, FALSE)
  \o Flatten([i \in 1..Len(f.namespaces) |->
                Items(ScopeCallables(f.namespaces[i]), f.path, TRUE)])

FactoryWork(p) == Flatten([i \in 1..Len(p) |-> FactoryWorkOf(p[i])])

\* ------------------------------------------------------------- the state
VARIABLES
  prog,             \* the source files (never written)
  pc,               \* the pass run() is in
  cur,              \* index of the next item of the pass's loop
  tokens,           \* state.tokens: Map typeName -> tokenName
  multiServices,    \* state.multiServices
  factories,        \* state.factories
  tokensImports,    \* state.tokensImports
  factoriesImports, \* state.factoriesImports
  tokenDeps,        \* generateTokens: Map tokenName -> Set of tokenName
  tokenMetadata,    \* generateTokens: Map tokenName -> {implements, generics}
  sortedTokens,     \* generateTokens: the topological order
  visiting,         \* generateTokens: the in-progress set when visit() threw
  tokensFile,       \* the in-memory tokens.ts
  factoriesFile,    \* the in-memory factories.ts
  containerFiles,   \* the in-memory container files of the project
  disk,             \* the files saved with saveSync()
  warnings,         \* console.warn calls
  detected,         \* the "(auto-detected from <base>)" lines of console.log
  error             \* the Error that ended the run

vars == <<prog, pc, cur, tokens, multiServices, factories, tokensImports,
          factoriesImports, tokenDeps, tokenMetadata, sortedTokens, visiting,
          tokensFile, factoriesFile, containerFiles, disk, warnings, detected,
          error>>

Phases == <<"collectTokens", "autoDetect", "collectFactories", "graph",
            "emitTokens", "generateFactories", "generateContainers", "save", "done">>

PhaseIndex(p) == CHOOSE i \in 1..Len(Phases) : Phases[i] = p

\* the number of iterations of the loop of a pass; the graph loop of
\* generateTokens iterates the live Map state.tokens
WorkLen(p, phase, ntokens) ==
  CASE phase = "collectTokens" -> Len(TokenWork(p))
    [] phase = "autoDetect" -> Len(DetectWork(p))
    [] phase = "collectFactories" -> Len(FactoryWork(p))
    [] phase = "graph" -> ntokens
    [] OTHER -> 1

RECURSIVE PhaseFrom(_, _, _)
\* the first pass from Phases[i] on whose loop has something to do
PhaseFrom(p, i, ntokens) ==
  IF Phases[i] = "done" \/ WorkLen(p, Phases[i], ntokens) > 0 THEN Phases[i]
  ELSE PhaseFrom(p, i + 1, ntokens)

\* a loop that starts over where it should leave the pass
ContinueFromStart(ntokens) ==
  IF cur + 1 <= WorkLen(prog, pc, ntokens)
  THEN pc' = pc /\ cur' = cur + 1
  ELSE pc' = pc /\ cur' = 1

\* control after iteration cur of the loop of pass pc
Continue(ntokens) ==
  IF cur + 1 <= WorkLen(prog, pc, ntokens)
  THEN pc' = pc /\ cur' = cur + 1
  ELSE pc' = PhaseFrom(prog, PhaseIndex(pc) + 1, ntokens) /\ cur' = 1

\* a driver that reports the Error of a pass and goes on with the next step
FailAndGoOn(e) ==
  /\ error' = e
  /\ IF cur + 1 <= WorkLen(prog, pc, Len(tokens))
     THEN pc' = pc /\ cur' = cur + 1
     ELSE pc' = PhaseFrom(prog, PhaseIndex(pc) + 1, Len(tokens)) /\ cur' = 1

\* an Error propagates out of run(): nothing later executes
Fail(e) == pc' = "failed" /\ cur' = cur /\ error' = e

EmptyFile == [imports |-> <<>>, decls |-> <<>>, reexport |-> FALSE]

Init ==
  /\ prog \in Programs
  /\ pc = PhaseFrom(prog, 1, 0)
  /\ cur = 1
  /\ tokens = <<>>
  /\ multiServices = {}
  /\ factories = <<>>
  /\ tokensImports = <<>>
  /\ factoriesImports = <<>>
  /\ tokenDeps = <<>>
  /\ tokenMetadata = <<>>
  /\ sortedTokens = <<>>
  /\ visiting = <<>>
  /\ tokensFile = EmptyFile
  /\ factoriesFile = EmptyFile
  /\ containerFiles = <<>>
  /\ disk = <<>>
  /\ warnings = <<>>
  /\ detected = <<>>
  /\ error = NoErr

\* ------------------------------------------------- PASS 1: collectTokens
\* the body of the loop of collectFromNodes for one node
CollectTokensStep ==
  /\ pc = "collectTokens"
  /\ LET item == TokenWork(prog)[cur]
         node == item.node
         rel  == getRelativePathFromTokens(item.file)
         hasService == hasTag(node, "Service")
         hasMultiService == hasTag(node, "MultiService")
         skip == ~node.exported \/ (~hasService /\ ~hasMultiService) \/ node.name = ""
     IN /\ tokens' = IF skip THEN tokens
                     ELSE MapSet(tokens, node.name, TokenName(node.name))
        /\ tokensImports' = IF skip THEN tokensImports
                            ELSE addImport(tokensImports, rel, node.name)
        /\ multiServices' = IF ~skip /\ hasMultiService
                            THEN multiServices \cup {node.name} ELSE multiServices
        /\ Continue(Len(tokens'))
  /\ UNCHANGED <<prog, detected, factories, factoriesImports, tokenDeps, tokenMetadata,
                 sortedTokens, visiting, tokensFile, factoriesFile,
                 containerFiles, disk, warnings, error>>

\* ---------------------------------------------- PASS 1.5: autoDetectTokens
\* the first extended type whose symbol has a token, or 0
FirstTokenizedBase(toks, exts) ==
  IF \E i \in 1..Len(exts) : MapGet(toks, SymbolName(exts[i])) # "" /\ SymbolName(exts[i]) # ""
  THEN CHOOSE i \in 1..Len(exts) :
         /\ MapGet(toks, SymbolName(exts[i])) # "" /\ SymbolName(exts[i]) # ""
         /\ \A j \in 1..(i - 1) :
              ~(MapGet(toks, SymbolName(exts[j])) # "" /\ SymbolName(exts[j]) # "")
  ELSE 0

\* the body of the alias loop or of the interface loop for one declaration
AutoDetectStep ==
  /\ pc = "autoDetect"
  /\ LET item == DetectWork(prog)[cur]
         node == item.node
         rel  == getRelativePathFromTokens(item.file)
         skip == ~node.exported \/ node.name = "" \/ hasTag(node, "Token")
         \* an alias has one target; an interface is matched base by base
         hit  == /\ ~skip
                 /\ ~MapHas(tokens, node.name)
                 /\ FirstTokenizedBase(tokens, node.ext) # 0
     IN /\ tokens' = IF hit THEN MapSet(tokens, node.name, TokenName(node.name))
                     ELSE tokens
        /\ tokensImports' = IF hit THEN addImport(tokensImports, rel, node.name)
                            ELSE tokensImports
        /\ detected' = IF hit
                       THEN Append(detected,
                                   [name |-> node.name,
                                    from |-> SymbolName(
                                      node.ext[FirstTokenizedBase(tokens, node.ext)])])
                       ELSE detected
        /\ Continue(Len(tokens'))
  /\ UNCHANGED <<prog, multiServices, factories, factoriesImports, tokenDeps,
                 tokenMetadata, sortedTokens, visiting, tokensFile,
                 factoriesFile, containerFiles, disk, warnings, error>>

\* ------------------------------------------------ PASS 2: collectFactories
\* getModuleNameOnVar / getLifecycleOnVar read the variable statement
getModuleNameOnVar(v) ==
  IF TrimRight(TrimLeft(v.stmtModuleTag)) # <<>>
  THEN TrimRight(TrimLeft(v.stmtModuleTag)) ELSE DEFAULT_MODULE

getLifecycleOnVar(v) ==
  IF \E t \in v.stmtTags : ToLowerTag(t) = "singleton" THEN "singleton"
  ELSE IF \E t \in v.stmtTags : ToLowerTag(t) = "scoped" THEN "scoped"
  ELSE "transient"

\* the state one processFactory call leaves, and whether it threw (err),
\* warned (warned) or pushed a record
Outcome(c, fs, fimps, warned) ==
  [tokens |-> c.tokens, tokensImports |-> c.tokensImports, factories |-> fs,
   factoriesImports |-> fimps, err |-> c.err, warned |-> warned]

FactoryRecord(name, isClass, rel, moduleName, lifecycle, paramDeps, returnTypeName, isMultiServiceImpl, metadata) ==
  [name |-> name, isClass |-> isClass, deps |-> paramDeps,
   returnType |-> IF isMultiServiceImpl THEN name ELSE returnTypeName,
   filePath |-> rel, module |-> moduleName, lifecycle |-> lifecycle,
   isMultiServiceImpl |-> isMultiServiceImpl,
   metadata |-> IF isMultiServiceImpl
                THEN [implements |-> <<returnTypeName>>, generics |-> metadata.out]
                ELSE [implements |-> metadata.impl, generics |-> metadata.out]]

\* processFactory from "const isMultiServiceImpl" on; c2 is the state after
\* extractMetadata
processFactoryPush(c2, name, isClass, rel, moduleName, lifecycle, paramDeps, returnTypeName) ==
  IF c2.err.kind # "none" THEN Outcome(c2, factories, factoriesImports, FALSE)
  ELSE Outcome(c2,
               Append(factories,
                      FactoryRecord(name, isClass, rel, moduleName, lifecycle, paramDeps,
                                    returnTypeName, returnTypeName \in multiServices, c2)),
               addImport(factoriesImports, rel, name), FALSE)

\* a processFactory that throws where there is no call signature
processFactoryReturnThrows(c1, node, name, isClass, rel, moduleName, lifecycle) ==
  IF c1.err.kind # "none" THEN Outcome(c1, factories, factoriesImports, FALSE)
  ELSE IF ~isClass /\ node.sigs = <<>>
  THEN Outcome([c1 EXCEPT !.err = [kind |-> "signature", context |-> name, named |-> <<>>]],
               factories, factoriesImports, FALSE)
  ELSE processFactoryPush(
         extractMetadata(c1, IF isClass THEN node.self ELSE node.sigs[1]),
         name, isClass, rel, moduleName, lifecycle, c1.out,
         getTypeName(IF isClass THEN node.self ELSE node.sigs[1]))

\* processFactory from "let returnType" on; c1 is the state after the parameters
processFactoryReturn(c1, node, name, isClass, rel, moduleName, lifecycle) ==
  IF c1.err.kind # "none" THEN Outcome(c1, factories, factoriesImports, FALSE)
  ELSE IF ~isClass /\ node.sigs = <<>>
  THEN Outcome(c1, factories, factoriesImports, TRUE)
  ELSE processFactoryPush(
         extractMetadata(c1, IF isClass THEN node.self ELSE node.sigs[1]),
         name, isClass, rel, moduleName, lifecycle, c1.out,
         getTypeName(IF isClass THEN node.self ELSE node.sigs[1]))

\* a processFactory that looks for the call signature before the parameters
processFactorySignatureFirst(node, rel, name, isClass, params, moduleName, lifecycle) ==
  IF ~isClass /\ node.sigs = <<>>
  THEN Outcome(Ctx(tokens, tokensImports), factories, factoriesImports, TRUE)
  ELSE processFactoryReturn(
         EnsureAll(Ctx(tokens, tokensImports), params, name \o " parameter"),
         node, name, isClass, rel, moduleName, lifecycle)

processFactory(node, rel, name, isClass, params, moduleName, lifecycle) ==
  processFactoryReturn(
    EnsureAll(Ctx(tokens, tokensImports), params, name \o " parameter"),
    node, name, isClass, rel, moduleName, lifecycle)

\* the effect of one processFactory call on the run
CollectFactoryCall(r, name) ==
  /\ tokens' = r.tokens
  /\ tokensImports' = r.tokensImports
  /\ factories' = r.factories
  /\ factoriesImports' = r.factoriesImports
  /\ warnings' = IF r.warned THEN Append(warnings, name) ELSE warnings
  /\ IF r.err.kind # "none" THEN Fail(r.err)
     ELSE Continue(Len(r.tokens)) /\ error' = error

CollectFactoryNode(node, rel) ==
  IF node.kind = "var"
  THEN IF ~hasTagOnVar(node, "Injectable") \/ ~node.initIsFn
       THEN /\ UNCHANGED <<tokens, tokensImports, factories, factoriesImports,
                           warnings, error>>
            /\ Continue(Len(tokens))
       ELSE CollectFactoryCall(
              processFactory(node, rel, node.name, FALSE, node.params,
                             getModuleNameOnVar(node), getLifecycleOnVar(node)),
              node.name)
  ELSE IF ~hasTag(node, "Injectable") \/ node.name = ""
       THEN /\ UNCHANGED <<tokens, tokensImports, factories, factoriesImports,
                           warnings, error>>
            /\ Continue(Len(tokens))
       ELSE CollectFactoryCall(
              processFactory(node, rel, node.name, node.kind = "class", node.params,
                             getModuleName(node), getLifecycle(node)),
              node.name)

\* the callback of one forEach of collectFactories for one declaration
CollectFactoryStep ==
  /\ pc = "collectFactories"
  /\ CollectFactoryNode(FactoryWork(prog)[cur].node,
                        getRelativePathFromFactories(FactoryWork(prog)[cur].file))
  /\ UNCHANGED <<prog, detected, multiServices, tokenDeps, tokenMetadata, sortedTokens,
                 visiting, tokensFile, factoriesFile, containerFiles, disk>>

\* ------------------------------------- PASS 3: generateTokens, graph loop
\* the declaration the files loop stops at for typeName: in the first file
\* that has an exported alias or interface of that name, the alias if any
FilesWith(p, typeName) ==
  {i \in 1..Len(p) :
     \E d \in Range(p[i].top.typeAliases) \cup Range(p[i].top.interfaces) :
        d.name = typeName /\ d.exported}

FirstNamed(decls, typeName) ==
  decls[CHOOSE i \in 1..Len(decls) :
          /\ decls[i].name = typeName /\ decls[i].exported
          /\ \A j \in 1..(i - 1) : ~(decls[j].name = typeName /\ decls[j].exported)]

FoundDecl(p, typeName) ==
  LET f == p[CHOOSE i \in FilesWith(p, typeName) : \A j \in FilesWith(p, typeName) : i <= j]
  IN IF \E d \in Range(f.top.typeAliases) : d.name = typeName /\ d.exported
     THEN FirstNamed(f.top.typeAliases, typeName)
     ELSE FirstNamed(f.top.interfaces, typeName)

\* Map<string, Set<string>>.get(k).add(v) and Map.set on a sequence of entries
DepsOf(deps, tokenName) ==
  IF \E i \in 1..Len(deps) : deps[i].token = tokenName
  THEN deps[CHOOSE i \in 1..Len(deps) : deps[i].token = tokenName].deps
  ELSE <<>>

DepsSet(deps, tokenName, ds) ==
  IF \E i \in 1..Len(deps) : deps[i].token = tokenName
  THEN [i \in 1..Len(deps) |->
          IF deps[i].token = tokenName THEN [token |-> tokenName, deps |-> ds]
          ELSE deps[i]]
  ELSE Append(deps, [token |-> tokenName, deps |-> ds])

MetaGet(meta, tokenName) ==
  meta[CHOOSE i \in 1..Len(meta) : meta[i].token = tokenName]

MetaHas(meta, tokenName) == \E i \in 1..Len(meta) : meta[i].token = tokenName

MetaSet(meta, tokenName, impl, gens) ==
  LET e == [token |-> tokenName, implements |-> impl, generics |-> gens]
  IN IF MetaHas(meta, tokenName)
     THEN [i \in 1..Len(meta) |-> IF meta[i].token = tokenName THEN e ELSE meta[i]]
     ELSE Append(meta, e)

\* the index in decl.ext of the base whose generic arguments are read:
\* the alias target if its symbol has a token, or the first extended type
\* whose symbol has a token; 0 if there is none
FirstTokenizedBaseOrAlias(decl) ==
  IF decl.kind = "alias"
  THEN (IF MapGet(tokens, SymbolName(decl.ext[1])) # "" THEN 1 ELSE 0)
  ELSE IF \E i \in 1..Len(decl.ext) : MapGet(tokens, SymbolName(decl.ext[i])) # ""
  THEN CHOOSE i \in 1..Len(decl.ext) :
         /\ MapGet(tokens, SymbolName(decl.ext[i])) # ""
         /\ \A j \in 1..(i - 1) : MapGet(tokens, SymbolName(decl.ext[j])) = ""
  ELSE 0

\* the effect of one iteration: c is the state after the ensureToken calls
\* on the generic arguments, its out the genericsTokens
GraphEffect(c, tokenName, baseToken) ==
  /\ tokens' = c.tokens
  /\ tokensImports' = c.tokensImports
  /\ tokenDeps' = DepsSet(tokenDeps, tokenName, Dedup(c.out))
  /\ tokenMetadata' = IF c.err.kind = "none" /\ c.out # <<>>
                      THEN MetaSet(tokenMetadata, tokenName, <<baseToken>>, c.out)
                      ELSE tokenMetadata
  /\ IF c.err.kind # "none" THEN Fail(c.err)
     ELSE Continue(Len(c.tokens)) /\ error' = error

GraphBase(decl, k, typeName, tokenName) ==
  IF k = 0 THEN GraphEffect(Ctx(tokens, tokensImports), tokenName, "")
  ELSE GraphEffect(EnsureAll(Ctx(tokens, tokensImports), decl.ext[k].args,
                             typeName \o " generic argument"),
                   tokenName, MapGet(tokens, SymbolName(decl.ext[k])))

GraphEntry(typeName, tokenName) ==
  IF FilesWith(prog, typeName) = {}
  THEN GraphEffect(Ctx(tokens, tokensImports), tokenName, "")
  ELSE GraphBase(FoundDecl(prog, typeName),
                 FirstTokenizedBaseOrAlias(FoundDecl(prog, typeName)),
                 typeName, tokenName)

\* one iteration of "for (const [typeName, tokenName] of state.tokens.entries())"
GraphStep ==
  /\ pc = "graph"
  /\ GraphEntry(tokens[cur].name, tokens[cur].token)
  /\ UNCHANGED <<prog, detected, multiServices, factories, factoriesImports, sortedTokens,
                 visiting, tokensFile, factoriesFile, containerFiles, disk, warnings>>

\* ------------------------- PASS 3: generateTokens, imports, sort, emission
CycleError(tokenName) ==
  [kind |-> "cycle", context |-> "Circular dependency detected in token",
   named |-> <<tokenName>>]

\* a visit() that does not record the token as visited
VisitDoneUnmarked(r, tokenName) ==
  IF r.err.kind # "none" THEN r
  ELSE [r EXCEPT !.visiting = SelectSeq(@, LAMBDA t : t # tokenName),
                 !.sorted = Append(@, tokenName)]

\* visit() after the loop over the dependencies
VisitDone(r, tokenName) ==
  IF r.err.kind # "none" THEN r
  ELSE [r EXCEPT !.visiting = SelectSeq(@, LAMBDA t : t # tokenName),
                 !.visited = @ \cup {tokenName},
                 !.sorted = Append(@, tokenName)]

RECURSIVE visit(_, _, _)
RECURSIVE VisitAll(_, _, _)

\* a visit that pushes the token before its dependencies
visitPreOrder(deps, r, tokenName) ==
  IF r.err.kind # "none" \/ tokenName \in r.visited THEN r
  ELSE IF Contains(r.visiting, tokenName)
  THEN [r EXCEPT !.err = CycleError(tokenName)]
  ELSE LET after == VisitAll(deps, [r EXCEPT !.visiting = Append(@, tokenName),
                                             !.sorted = Append(@, tokenName)],
                             DepsOf(deps, tokenName))
       IN IF after.err.kind # "none" THEN after
          ELSE [after EXCEPT !.visiting = SelectSeq(@, LAMBDA t : t # tokenName),
                             !.visited = @ \cup {tokenName}]

\* a visit that takes an in-progress token for a finished one
visitSkipInProgress(deps, r, tokenName) ==
  IF r.err.kind # "none" \/ tokenName \in r.visited \/ Contains(r.visiting, tokenName)
  THEN r
  ELSE VisitDone(VisitAll(deps, [r EXCEPT !.visiting = Append(@, tokenName)],
                          DepsOf(deps, tokenName)),
                 tokenName)

\* r: the locals sortedTokens (sorted), visited, visiting and a thrown Error
visit(deps, r, tokenName) ==
  IF r.err.kind # "none" \/ tokenName \in r.visited THEN r
  ELSE IF Contains(r.visiting, tokenName)
  THEN [r EXCEPT !.err = CycleError(tokenName)]
  ELSE VisitDone(VisitAll(deps, [r EXCEPT !.visiting = Append(@, tokenName)],
                          DepsOf(deps, tokenName)),
                 tokenName)

VisitAll(deps, r, names) ==
  IF names = <<>> THEN r
  ELSE VisitAll(deps, visit(deps, r, Head(names)), Tail(names))

\* "for (const tokenName of state.tokens.values()) visit(tokenName)"
TopoSort(toks, deps) ==
  VisitAll(deps, [sorted |-> <<>>, visited |-> {}, visiting |-> <<>>, err |-> NoErr],
           MapValues(toks))

\* the first type name mapped to tokenName, "" if none
TypeNameOfToken(toks, tokenName) ==
  IF \E i \in 1..Len(toks) : toks[i].token = tokenName
  THEN toks[CHOOSE i \in 1..Len(toks) :
              /\ toks[i].token = tokenName
              /\ \A j \in 1..(i - 1) : toks[j].token # tokenName].name
  ELSE ""

\* a token declaration of tokens.ts: export const name = createDIToken<type>().as(key, meta)
TokenDecl(name, type, key, hasMeta, impl, gens) ==
  [name |-> name, type |-> type, key |-> key, hasMeta |-> hasMeta,
   implements |-> impl, generics |-> gens]

RECURSIVE EmitSorted(_, _, _)
EmitSorted(sorted, toks, meta) ==
  IF sorted = <<>> THEN <<>>
  ELSE LET tokenName == Head(sorted)
           typeName  == TypeNameOfToken(toks, tokenName)
           rest      == EmitSorted(Tail(sorted), toks, meta)
       IN IF typeName = "" THEN rest
          ELSE IF MetaHas(meta, tokenName)
          THEN <<TokenDecl(tokenName, typeName, typeName, TRUE,
                           MetaGet(meta, tokenName).implements,
                           MetaGet(meta, tokenName).generics)>> \o rest
          ELSE <<TokenDecl(tokenName, typeName, typeName, FALSE, <<>>, <<>>)>> \o rest

RECURSIVE EmitMultiImpls(_, _)
\* the tokens of the multi-service implementations
EmitMultiImpls(fs, toks) ==
  IF fs = <<>> THEN <<>>
  ELSE LET factory == Head(fs)
           implTokenName == TokenName(factory.name)
           rest == EmitMultiImpls(Tail(fs), toks)
       IN IF ~factory.isMultiServiceImpl \/ Contains(MapValues(toks), implTokenName)
          THEN rest
          ELSE <<TokenDecl(implTokenName, factory.metadata.implements[1], factory.name,
                           factory.metadata.implements # <<>>
                             \/ factory.metadata.generics # <<>>,
                           [i \in 1..Len(factory.metadata.implements) |->
                              TokenName(factory.metadata.implements[i])],
                           factory.metadata.generics)>> \o rest

\* names.delete("DIContainer") on every entry of state.tokensImports
DropImport(imports, name) ==
  [i \in 1..Len(imports) |->
     [imports[i] EXCEPT !.names = SelectSeq(@, LAMBDA n : n # name)]]

\* an import declaration; the sorted named imports are a set
ImportDecl(moduleSpecifier, names) ==
  [moduleSpecifier |-> moduleSpecifier, namedImports |-> names]

DI_CORE == "@fioc/core"

TokensFileImports(imps, hasDI) ==
  <<ImportDecl(DI_CORE, {"createDIToken"} \cup (IF hasDI THEN {"DIContainer"} ELSE {}))>>
  \o [i \in 1..Len(imps) |-> ImportDecl(imps[i].file, Range(imps[i].names))]

\* the effect of the sort (r) and of the emission that follows it
EmitEffect(r, importDecls) ==
  /\ sortedTokens' = r.sorted
  /\ visiting' = r.visiting
  /\ IF r.err.kind # "none"
     THEN /\ tokensFile' = [tokensFile EXCEPT !.imports = importDecls]
          /\ Fail(r.err)
     ELSE /\ tokensFile' =
               [tokensFile EXCEPT
                  !.imports = importDecls,
                  !.decls = EmitSorted(r.sorted, tokens, tokenMetadata)
                            \o EmitMultiImpls(factories, tokens)]
          /\ Continue(Len(tokens))
          /\ error' = error

\* generateTokens after the graph loop: the imports, the topological sort
\* and the token declarations
EmitTokens ==
  /\ pc = "emitTokens"
  /\ tokensImports' = IF MapHas(tokens, "DIContainer")
                      THEN DropImport(tokensImports, "DIContainer")
                      ELSE tokensImports
  /\ EmitEffect(TopoSort(tokens, tokenDeps),
                TokensFileImports(IF MapHas(tokens, "DIContainer")
                                  THEN DropImport(tokensImports, "DIContainer")
                                  ELSE tokensImports,
                                  MapHas(tokens, "DIContainer")))
  /\ UNCHANGED <<prog, detected, tokens, multiServices, factories, factoriesImports,
                 tokenDeps, tokenMetadata, factoriesFile, containerFiles, disk,
                 warnings>>

\* ----------------------------------------------- PASS 4: generateFactories
\* a reference in generated code: Tokens.<id> or Factories.<id>
Ref(space, id) == [space |-> space, id |-> id]

\* export const <name>Factory = withDependencies(deps).defineFactory(...)
FactoryDecl(factory) ==
  [kind |-> "factory", name |-> factory.name \o "Factory", of |-> factory.name,
   isClass |-> factory.isClass,
   deps |-> [i \in 1..Len(factory.deps) |-> Ref("Tokens", factory.deps[i])],
   implements |-> <<>>, generics |-> <<>>]

\* export const <name>Token = createFactoryDIToken<...>().as(name, meta)
FactoryTokenDecl(factory, toks) ==
  [kind |-> "token", name |-> TokenName(factory.name), of |-> factory.name,
   isClass |-> factory.isClass, deps |-> <<>>,
   implements |-> [i \in 1..Len(factory.metadata.implements) |->
                     LET interfaceName == factory.metadata.implements[i]
                         tokenName == MapGet(toks, interfaceName)
                     IN IF tokenName # "" THEN Ref("Tokens", tokenName)
                        ELSE Ref("Tokens", interfaceName)],
   generics |-> [i \in 1..Len(factory.metadata.generics) |->
                   Ref("Tokens", factory.metadata.generics[i])]]

HasMetadata(factory) ==
  factory.metadata.implements # <<>> \/ factory.metadata.generics # <<>>

\* the statements generateFactories adds for one factory
FactoryStatements(factory, toks) ==
  IF HasMetadata(factory)
  THEN <<FactoryDecl(factory), FactoryTokenDecl(factory, toks)>>
  ELSE IF MapGet(toks, factory.returnType) # ""
  THEN <<FactoryDecl(factory)>>
  ELSE <<FactoryDecl(factory),
         [FactoryTokenDecl(factory, toks) EXCEPT !.implements = <<>>, !.generics = <<>>]>>

GenerateFactories ==
  /\ pc = "generateFactories"
  /\ factoriesFile' =
       [imports |-> <<ImportDecl(DI_CORE, {"withDependencies", "createFactoryDIToken",
                                           "constructorToFactory"}),
                      ImportDecl(getRelativePath(FACTORIES_FILE, TOKENS_FILE), {"Tokens"})>>
                    \o [i \in 1..Len(factoriesImports) |->
                          ImportDecl(factoriesImports[i].file,
                                     Range(factoriesImports[i].names))],
        decls |-> Flatten([i \in 1..Len(factories) |->
                             FactoryStatements(factories[i], tokens)]),
        reexport |-> TRUE]
  /\ Continue(Len(tokens))
  /\ UNCHANGED <<prog, detected, tokens, multiServices, factories, tokensImports,
                 factoriesImports, tokenDeps, tokenMetadata, sortedTokens,
                 visiting, tokensFile, containerFiles, disk, warnings, error>>

\* ---------------------------------------------- PASS 5: generateContainers
Alphabet ==
  << <<"a", "A">>, <<"b", "B">>, <<"c", "C">>, <<"d", "D">>, <<"e", "E">>,
     <<"f", "F">>, <<"g", "G">>, <<"h", "H">>, <<"i", "I">>, <<"j", "J">>,
     <<"k", "K">>, <<"l", "L">>, <<"m", "M">>, <<"n", "N">>, <<"o", "O">>,
     <<"p", "P">>, <<"q", "Q">>, <<"r", "R">>, <<"s", "S">>, <<"t", "T">>,
     <<"u", "U">>, <<"v", "V">>, <<"w", "W">>, <<"x", "X">>, <<"y", "Y">>,
     <<"z", "Z">> >>

toUpperCase(ch) ==
  IF \E i \in 1..Len(Alphabet) : Alphabet[i][1] = ch
  THEN Alphabet[CHOOSE i \in 1..Len(Alphabet) : Alphabet[i][1] = ch][2] ELSE ch

toLowerCase(ch) ==
  IF \E i \in 1..Len(Alphabet) : Alphabet[i][2] = ch
  THEN Alphabet[CHOOSE i \in 1..Len(Alphabet) : Alphabet[i][2] = ch][1] ELSE ch

\* the characters of the class [\s-_]
IsSeparator(ch) == ch \in {" ", "-", "_"}

RECURSIVE PascalFrom(_, _)
\* split(/[\s-_]+/), capitalise each word, lower-case its rest, join("")
PascalFrom(str, atWordStart) ==
  IF str = <<>> THEN <<>>
  ELSE IF IsSeparator(Head(str)) THEN PascalFrom(Tail(str), TRUE)
  ELSE <<IF atWordStart THEN toUpperCase(Head(str)) ELSE toLowerCase(Head(str))>>
       \o PascalFrom(Tail(str), FALSE)

toPascalCase(str) == PascalFrom(str, TRUE)

toCamelCase(str) ==
  LET pascal == toPascalCase(str)
  IN IF pascal = <<>> THEN <<>> ELSE <<toLowerCase(Head(pascal))>> \o Tail(pascal)

\* a property the record does not have reads as undefined
Undefined == "<undefined>"

returnTypeNameOf(factory) ==
  IF "returnTypeName" \in DOMAIN factory THEN factory["returnTypeName"] ELSE Undefined

\* a registration that binds the factory to the token of the type it produces
RegistrationByProducedType(factory, toks) ==
  LET produced == IF factory.isMultiServiceImpl THEN factory.metadata.implements[1]
                  ELSE factory.returnType
      returnToken == MapGet(toks, produced)
  IN IF returnToken = ""
     THEN [target |-> Ref("Factories", TokenName(factory.name)),
           factory |-> factory.name \o "Factory"]
     ELSE [target |-> Ref("Tokens", returnToken),
           factory |-> factory.name \o "Factory"]

\* the (target, factory) pair registered for one factory
Registration(factory, toks) ==
  LET hasMetadata == HasMetadata(factory)
      returnToken == MapGet(toks, returnTypeNameOf(factory))
  IN IF hasMetadata \/ returnToken = ""
     THEN [target |-> Ref("Factories", TokenName(factory.name)),
           factory |-> factory.name \o "Factory"]
     ELSE [target |-> Ref("Tokens", returnToken),
           factory |-> factory.name \o "Factory"]

\* a grouping loop that sets the module's list to [] for every factory
GroupPushReset(byModule, factory) ==
  MapSet(byModule, factory.module, <<factory>>)

\* the body of the grouping loop: set(module, []) unless has(module), then push
GroupPush(byModule, factory) ==
  MapSet(byModule, factory.module,
         IF MapHas(byModule, factory.module)
         THEN Append(MapGet(byModule, factory.module), factory)
         ELSE <<factory>>)

RECURSIVE GroupFrom(_, _, _)
GroupFrom(byModule, fs, i) ==
  IF i > Len(fs) THEN byModule ELSE GroupFrom(GroupPush(byModule, fs[i]), fs, i + 1)

\* factoriesByModule: Map module -> the factories of the module
factoriesByModule(fs) == GroupFrom(<<>>, fs, 1)

\* its keys, in order of first occurrence
ModulesOf(fs) ==
  [i \in 1..Len(factoriesByModule(fs)) |-> factoriesByModule(fs)[i].name]

FactoriesOfModule(fs, moduleName) == MapGet(factoriesByModule(fs), moduleName)

ContainerFileName(moduleName) ==
  IF moduleName = DEFAULT_MODULE THEN "container.ts"
  ELSE JoinWith(toCamelCase(moduleName), "") \o "Container.ts"

ContainerVarName(moduleName) ==
  IF moduleName = DEFAULT_MODULE THEN "container"
  ELSE JoinWith(toCamelCase(moduleName), "") \o "Container"

ContainerPath(moduleName) ==
  JoinWith(CONTAINERS_DIR \o <<ContainerFileName(moduleName)>>, "/")

ContainerContent(fs, toks, moduleName) ==
  LET mine == FactoriesOfModule(fs, moduleName)
  IN [module |-> moduleName, varName |-> ContainerVarName(moduleName),
      registrations |-> [i \in 1..Len(mine) |-> Registration(mine[i], toks)]]

\* createSourceFile(path, ..., {overwrite: true}) and saveSync(): a file
\* system is a sequence of (path, content), a path written twice keeps the
\* last content
WriteFile(fs, path, content) ==
  IF \E i \in 1..Len(fs) : fs[i].path = path
  THEN [i \in 1..Len(fs) |->
          IF fs[i].path = path THEN [path |-> path, content |-> content] ELSE fs[i]]
  ELSE Append(fs, [path |-> path, content |-> content])

RECURSIVE WriteContainers(_, _, _, _)
WriteContainers(fsys, mods, fs, toks) ==
  IF mods = <<>> THEN fsys
  ELSE WriteContainers(WriteFile(fsys, ContainerPath(Head(mods)),
                                 ContainerContent(fs, toks, Head(mods))),
                       Tail(mods), fs, toks)

GenerateContainers ==
  /\ pc = "generateContainers"
  /\ containerFiles' = WriteContainers(containerFiles, ModulesOf(factories),
                                       factories, tokens)
  /\ disk' = WriteContainers(disk, ModulesOf(factories), factories, tokens)
  /\ Continue(Len(tokens))
  /\ UNCHANGED <<prog, detected, tokens, multiServices, factories, tokensImports,
                 factoriesImports, tokenDeps, tokenMetadata, sortedTokens,
                 visiting, tokensFile, factoriesFile, warnings, error>>

\* ------------------------------------------------- run(): the final saves
PathString(file) == JoinWith(file.dirs \o <<file.base \o "." \o file.ext>>, "/")

Save ==
  /\ pc = "save"
  /\ disk' = WriteFile(WriteFile(disk, PathString(TOKENS_FILE), tokensFile),
                       PathString(FACTORIES_FILE), factoriesFile)
  /\ Continue(Len(tokens))
  /\ UNCHANGED <<prog, detected, tokens, multiServices, factories, tokensImports,
                 factoriesImports, tokenDeps, tokenMetadata, sortedTokens,
                 visiting, tokensFile, factoriesFile, containerFiles, warnings,
                 error>>

Next ==
  \/ CollectTokensStep
  \/ AutoDetectStep
  \/ CollectFactoryStep
  \/ GraphStep
  \/ EmitTokens
  \/ GenerateFactories
  \/ GenerateContainers
  \/ Save

Spec == Init /\ [][Next]_vars

\* control moves: to the next iteration, to the next pass, or out by an Error
Advance ==
  /\ pc \notin {"done", "failed"}
  /\ pc' \in Range(Phases) \cup {"failed"}
  /\ cur' \in 1..(cur + 1)

\* run() is one synchronous call: until it returns or throws, the loop body
\* it is at runs to its end and control moves on
FairSpec == Spec /\ WF_<<pc, cur>>(Advance)

\* ------------------------------------------------------------ properties
\* a declaration collectTokens registers
Registers(node) ==
  /\ node.exported
  /\ node.name # ""
  /\ \E t \in node.tags : ToLowerTag(t) \in {"service", "multiservice"}

\* generateTokens returned: the sort and the emission are done
GenerationSucceeded == pc \in {"generateFactories", "generateContainers", "save", "done"}

\* the names of the token declarations of tokens.ts, in file order
EmittedNames == [i \in 1..Len(tokensFile.decls) |-> tokensFile.decls[i].name]

\* b is declared, and every declaration of a follows a declaration of b
EmittedBefore(b, a) ==
  /\ \E j \in 1..Len(EmittedNames) : EmittedNames[j] = a
  /\ \A j \in 1..Len(EmittedNames) :
       EmittedNames[j] = a => \E i \in 1..(j - 1) : EmittedNames[i] = b

\* the edges token -> generic-argument token of the graph of generateTokens
Edges ==
  UNION {{<<tokenDeps[k].token, d>> : d \in Range(tokenDeps[k].deps)} :
           k \in 1..Len(tokenDeps)}

Successors(S) == {e[2] : e \in {x \in Edges : x[1] \in S}}

RECURSIVE ReachWithin(_, _)
\* the tokens reached from S in at most n further edges
ReachWithin(S, n) ==
  IF n = 0 THEN S ELSE ReachWithin(S \cup Successors(S), n - 1)

\* t lies on a cycle of the graph
OnCycle(t) == t \in ReachWithin(Successors({t}), Cardinality(Edges))

HasCycle == \E e \in Edges : OnCycle(e[1])

\* the registrations of the container files of a file system
RegistrationsIn(fsys) ==
  UNION {Range(fsys[i].content.registrations) :
           i \in {j \in 1..Len(fsys) : "registrations" \in DOMAIN fsys[j].content}}

\* C1: token registration is idempotent and stable.  In every step of a
\* run every entry of the registry keeps its place and its id, every id is
\* "<typeName>Token" and no name has two entries; a collectTokens or
\* autoDetectTokens step on a name that already has a token leaves the
\* registry unchanged; and a factory pushed by collectFactories depends,
\* for each parameter type that already had a token, on that existing id.
C1_RegistrationStable ==
  [][ /\ Len(tokens') >= Len(tokens)
      /\ \A i \in 1..Len(tokens) : tokens'[i] = tokens[i]
      /\ \A i \in 1..Len(tokens') : tokens'[i].token = tokens'[i].name \o "Token"
      /\ \A i, j \in 1..Len(tokens') : tokens'[i].name = tokens'[j].name => i = j
      /\ (pc = "collectTokens" /\ MapHas(tokens, TokenWork(prog)[cur].node.name))
           => tokens' = tokens
      /\ (pc = "autoDetect" /\ MapHas(tokens, DetectWork(prog)[cur].node.name))
           => tokens' = tokens
      /\ (pc = "collectFactories" /\ Len(factories') > Len(factories))
           => \A t \in Range(FactoryWork(prog)[cur].node.params) :
                MapHas(tokens, getTypeName(t))
                  => Contains(factories'[Len(factories')].deps,
                              MapGet(tokens, getTypeName(t)))
    ]_vars

\* a finished run in which A was registered by two declarations and then
\* requested again as a factory parameter
C1_Witness ==
  /\ pc = "done"
  /\ Cardinality({i \in 1..Len(TokenWork(prog)) :
                    /\ Registers(TokenWork(prog)[i].node)
                    /\ TokenWork(prog)[i].node.name = "A"}) >= 2
  /\ tokens = <<[name |-> "A", token |-> "AToken"], [name |-> "B", token |-> "BToken"]>>
  /\ \E i \in 1..Len(factories) : factories[i].deps = <<"AToken", "BToken">>

\* the declared types collectTokens has registered so far, each identified
\* by its file, its enclosing namespace and its name
RegisteredTypes ==
  LET work == TokenWork(prog)
      n == IF pc = "collectTokens" THEN cur - 1 ELSE Len(work)
  IN {[file |-> work[i].file, inNs |-> work[i].inNs, name |-> work[i].node.name] :
        i \in {j \in 1..n : Registers(work[j].node)}}

\* C2: in every reachable state no two distinct declared types (distinct in
\* name, declaring file or enclosing namespace) share a token id.
C2_TokenIdsInjective ==
  \A d1, d2 \in RegisteredTypes :
    d1 # d2 => MapGet(tokens, d1.name) # MapGet(tokens, d2.name)

\* C3: no step changes the cardinality of a name that has a token: a single
\* name never joins the multi-service set and a multi name never leaves it.
C3_CardinalityFixed ==
  [][ \A n \in MapKeys(tokens) : (n \in multiServices) = (n \in multiServices') ]_vars

\* the declarations processFactory makes a factory of, in the order of the pass
InjectableItems ==
  SelectSeq(FactoryWork(prog),
            LAMBDA it :
              /\ IF it.node.kind = "var"
                 THEN hasTagOnVar(it.node, "Injectable") /\ it.node.initIsFn
                 ELSE hasTag(it.node, "Injectable") /\ it.node.name # ""
              /\ (it.node.kind = "class" \/ it.node.sigs # <<>>))

\* the name of the type the i-th of them produces
ProducedTypeName(i) ==
  LET node == InjectableItems[i].node
  IN getTypeName(IF node.kind = "class" THEN node.self ELSE node.sigs[1])

\* C4: once collectFactories has returned, any two distinct injectable
\* factories that produce the same multi-cardinality interface P are both
\* marked as multi-implementations, their tokens differ from each other and
\* from P's own token, and the implements list of each is exactly [P].
C4_MultiImplsIsolated ==
  (/\ pc \in {"graph", "emitTokens", "generateFactories", "generateContainers",
              "save", "done"}
   /\ Len(factories) = Len(InjectableItems))
  => \A i, j \in 1..Len(factories) :
       (/\ i # j
        /\ ProducedTypeName(i) \in multiServices
        /\ ProducedTypeName(j) = ProducedTypeName(i))
       => /\ factories[i].isMultiServiceImpl
          /\ factories[j].isMultiServiceImpl
          /\ FactoryTokenDecl(factories[i], tokens).name
               # FactoryTokenDecl(factories[j], tokens).name
          /\ FactoryTokenDecl(factories[i], tokens).name
               # MapGet(tokens, ProducedTypeName(i))
          /\ factories[i].metadata.implements = <<ProducedTypeName(i)>>

\* C5: no registration of any container file, in memory or saved, has as
\* its target the token of a multi-cardinality interface.
C5_InterfaceTokenNeverBound ==
  \A r \in RegistrationsIn(containerFiles) \cup RegistrationsIn(disk) :
    ~(r.target.space = "Tokens"
      /\ r.target.id \in {MapGet(tokens, n) : n \in multiServices})

\* a finished run with a container that registers two implementations of a
\* multi-cardinality interface
C5_Witness ==
  /\ pc = "done"
  /\ \E i \in 1..Len(containerFiles) :
       \E f, g \in Range(FactoriesOfModule(factories, containerFiles[i].content.module)) :
         /\ f.name # g.name
         /\ f.isMultiServiceImpl /\ g.isMultiServiceImpl
         /\ f.metadata.implements = g.metadata.implements
         /\ {Registration(f, tokens), Registration(g, tokens)}
              \subseteq Range(containerFiles[i].content.registrations)

\* C6: when token generation succeeds, for every edge a -> b of the graph
\* (b a generic-argument token of a), b is emitted before a.
C6_GenericArgumentsFirst ==
  GenerationSucceeded
  => \A k \in 1..Len(tokenDeps) :
       \A b \in Range(tokenDeps[k].deps) : EmittedBefore(b, tokenDeps[k].token)

\* a finished run whose graph has an edge a -> b with b registered after a
C6_Witness ==
  /\ pc = "done"
  /\ \E i, j \in 1..Len(tokens) :
       /\ i < j
       /\ <<tokens[i].token, tokens[j].token>> \in Edges

\* C7: when token generation succeeds, every base token in the implements
\* list of a token emitted with metadata is emitted before that token.
C7_BaseTokensFirst ==
  GenerationSucceeded
  => \A j \in 1..Len(tokensFile.decls) :
       tokensFile.decls[j].hasMeta
       => \A b \in Range(tokensFile.decls[j].implements) :
            \E i \in 1..(j - 1) : tokensFile.decls[i].name = b

\* C8: once the graph loop and the sort have run, if the graph has a cycle
\* the run has ended with the cycle error, no token declaration was
\* emitted, and no factory definition or container file exists.
C8_CycleAborts ==
  (/\ HasCycle
   /\ pc \notin {"collectTokens", "autoDetect", "collectFactories", "graph", "emitTokens"}
   /\ ~(pc = "failed" /\ error.kind = "inline"))
  => /\ pc = "failed"
     /\ error.kind = "cycle"
     /\ tokensFile.decls = <<>>
     /\ factoriesFile = EmptyFile
     /\ containerFiles = <<>>
     /\ disk = <<>>

\* a run ended by the cycle error on a two-token cycle
C8_Witness ==
  /\ pc = "failed"
  /\ error.kind = "cycle"
  /\ \E a, b \in {tokens[i].token : i \in 1..Len(tokens)} :
       a # b /\ <<a, b>> \in Edges /\ <<b, a>> \in Edges

\* the in-progress chain visit() closed: from the token met again to the
\* token being visited
DetectedCycle ==
  {visiting[i] : i \in {j \in 1..Len(visiting) :
                          \E k \in 1..j : visiting[k] = error.named[1]}}

\* C9: the cycle error names every token of the detected cycle.
C9_ErrorNamesCycle ==
  (pc = "failed" /\ error.kind = "cycle")
  => \A t \in DetectedCycle : t \in Range(error.named)

\* the number of places of seq that hold e
Occurrences(seq, e) == Cardinality({j \in 1..Len(seq) : seq[j] = e})

\* C11: the per-module lists of generateContainers partition the factory
\* list.  No module is a key twice; every factory record is in the list of
\* its own module, exactly once, and in no other module's list; and every
\* element of a list is a record of the factory list.
C11_ModuleListsPartition ==
  /\ \A i, j \in 1..Len(ModulesOf(factories)) :
       ModulesOf(factories)[i] = ModulesOf(factories)[j] => i = j
  /\ \A i \in 1..Len(factories) :
       /\ Contains(ModulesOf(factories), factories[i].module)
       /\ Occurrences(FactoriesOfModule(factories, factories[i].module),
                      factories[i]) = 1
       /\ \A m \in Range(ModulesOf(factories)) :
            Contains(FactoriesOfModule(factories, m), factories[i])
              => m = factories[i].module
  /\ \A m \in Range(ModulesOf(factories)) :
       \A j \in 1..Len(FactoriesOfModule(factories, m)) :
         Contains(factories, FactoriesOfModule(factories, m)[j])

\* generateContainers has written the containers of two factories of one
\* module
C11_Witness ==
  /\ pc = "done"
  /\ Len(factories) = 2
  /\ factories[1].module = factories[2].module
  /\ \E i \in 1..Len(disk) :
       /\ "registrations" \in DOMAIN disk[i].content
       /\ Len(disk[i].content.registrations) = 2

\* the binding target of the three-way rule for one factory record
RuleTarget(factory, toks) ==
  IF factory.isMultiServiceImpl \/ HasMetadata(factory)
  THEN Ref("Factories", TokenName(factory.name))
  ELSE IF MapGet(toks, factory.returnType) # ""
  THEN Ref("Tokens", MapGet(toks, factory.returnType))
  ELSE Ref("Factories", TokenName(factory.name))

\* C12: once the containers are written, every factory is registered under
\* the target of the three-way rule: its own per-factory token if it is a
\* multi-implementation or has non-empty metadata, otherwise the registry
\* token of its produced type if the registry has one, otherwise its
\* per-factory token.
C12_ThreeWayBinding ==
  pc = "done" =>
    \A i \in 1..Len(factories) :
      [target |-> RuleTarget(factories[i], tokens),
       factory |-> factories[i].name \o "Factory"] \in RegistrationsIn(disk)

\* C13: for the program of one single-cardinality interface A and one
\* parameterless injectable F(): A without module annotation, a finished
\* run leaves exactly the token AToken in the registry and exactly one
\* factory record, with empty deps, and the default module's container
\* registers exactly F under the interface's own token AToken.
C13_InterfaceTokenBound ==
  (prog \in ProgramsA /\ pc = "done") =>
    /\ tokens = <<[name |-> "A", token |-> "AToken"]>>
    /\ Len(factories) = 1
    /\ factories[1].name = "F"
    /\ factories[1].deps = <<>>
    /\ \E i \in 1..Len(disk) :
         /\ disk[i].path = ContainerPath(DEFAULT_MODULE)
         /\ disk[i].content.registrations
              = <<[target |-> Ref("Tokens", "AToken"), factory |-> "FFactory"]>>

\* the parameters of a declaration that are not of a primitive type
NonPrimitiveParams(node) ==
  SelectSeq(node.params, LAMBDA t : ~isPrimitive(getTypeName(t)))

\* C14: the deps of every factory record are the registry tokens of the
\* non-primitive parameters of its declaration, one entry per parameter in
\* parameter order (a type that occurs twice gives two entries); primitive
\* parameters give no entry.
C14_DepsFollowParameters ==
  \A i \in 1..Len(factories) :
    /\ factories[i].name = InjectableItems[i].node.name
    /\ Len(factories[i].deps) = Len(NonPrimitiveParams(InjectableItems[i].node))
    /\ \A k \in 1..Len(factories[i].deps) :
         /\ factories[i].deps[k] # ""
         /\ factories[i].deps[k]
              = MapGet(tokens, getTypeName(NonPrimitiveParams(InjectableItems[i].node)[k]))

\* the record of K(b: B, n: number, b2: B) has been pushed
C14_Witness ==
  \E i \in 1..Len(factories) :
    /\ factories[i].name = "K"
    /\ Len(InjectableItems[i].node.params) = 3
    /\ factories[i].deps = <<"BToken", "BToken">>

\* the declaration carries the lifecycle annotation @tag
CarriesLifecycle(node, tag) ==
  IF node.kind = "var" THEN \E t \in node.stmtTags : ToLowerTag(t) = ToLowerTag(tag)
  ELSE hasTag(node, tag)

\* C15: the lifecycle of every factory record is singleton if its
\* declaration carries @Singleton, otherwise scoped if it carries @Scoped,
\* otherwise transient, whatever its module and whether or not it is a
\* multi-implementation.
C15_LifecycleFollowsAnnotation ==
  \A i \in 1..Len(factories) :
    /\ CarriesLifecycle(InjectableItems[i].node, "Singleton")
         => factories[i].lifecycle = "singleton"
    /\ (~CarriesLifecycle(InjectableItems[i].node, "Singleton")
          /\ CarriesLifecycle(InjectableItems[i].node, "Scoped"))
         => factories[i].lifecycle = "scoped"
    /\ (~CarriesLifecycle(InjectableItems[i].node, "Singleton")
          /\ ~CarriesLifecycle(InjectableItems[i].node, "Scoped"))
         => factories[i].lifecycle = "transient"

\* a record of a declaration with @Singleton and @Scoped, and a transient
\* multi-implementation, have been pushed
C15_Witness ==
  /\ Len(factories) = 2
  /\ \E i \in 1..2 :
       /\ CarriesLifecycle(InjectableItems[i].node, "Singleton")
       /\ CarriesLifecycle(InjectableItems[i].node, "Scoped")
       /\ factories[i].lifecycle = "singleton"
  /\ \E i \in 1..2 :
       /\ factories[i].isMultiServiceImpl
       /\ factories[i].lifecycle = "transient"

\* the type is an inline anonymous object type
IsInlineObject(type) == type.isObject /\ type.sym \in {"", "__type"} /\ Contains(type.text, "{")

\* the declaration collectFactories is at is injectable
AtInjectable ==
  /\ pc = "collectFactories"
  /\ IF FactoryWork(prog)[cur].node.kind = "var"
     THEN hasTagOnVar(FactoryWork(prog)[cur].node, "Injectable")
          /\ FactoryWork(prog)[cur].node.initIsFn
     ELSE hasTag(FactoryWork(prog)[cur].node, "Injectable")
          /\ FactoryWork(prog)[cur].node.name # ""

\* the first parameter type of the declaration that is an inline object
FirstInlineParam(node) ==
  node.params[CHOOSE k \in 1..Len(node.params) :
                /\ IsInlineObject(node.params[k])
                /\ \A j \in 1..(k - 1) : ~IsInlineObject(node.params[j])]

\* C16: the step of collectFactories on an injectable declaration one of
\* whose parameters is an inline object type ends the run with an error that
\* names the declaration and the text of the type and pushes no factory
\* record; and no step is taken after an error, so no later declaration is
\* processed.
C16_InlineParameterAborts ==
  [][ /\ pc # "failed"
      /\ (AtInjectable
           /\ \E k \in 1..Len(FactoryWork(prog)[cur].node.params) :
                IsInlineObject(FactoryWork(prog)[cur].node.params[k]))
         => /\ pc' = "failed"
            /\ error'.kind = "inline"
            /\ error'.context = FactoryWork(prog)[cur].node.name \o " parameter"
            /\ error'.named = FirstInlineParam(FactoryWork(prog)[cur].node).text
            /\ factories' = factories
            /\ factoriesImports' = factoriesImports ]_vars

\* the run has ended on the inline parameter of an injectable declaration
\* that another injectable declaration follows
C16_Witness ==
  /\ pc = "failed"
  /\ error.kind = "inline"
  /\ cur < Len(FactoryWork(prog))
  /\ error.context = FactoryWork(prog)[cur].node.name \o " parameter"
  /\ \E k \in 1..Len(FactoryWork(prog)[cur].node.params) :
       IsInlineObject(FactoryWork(prog)[cur].node.params[k])

\* C17: the step of collectFactories on an injectable callable whose
\* return type is an inline object type ends the run with the inline-object
\* error, as for a parameter, and pushes no factory record.
C17_InlineReturnAborts ==
  [][ (/\ AtInjectable
       /\ FactoryWork(prog)[cur].node.kind # "class"
       /\ FactoryWork(prog)[cur].node.sigs # <<>>
       /\ IsInlineObject(FactoryWork(prog)[cur].node.sigs[1]))
      => /\ pc' = "failed"
         /\ error'.kind = "inline"
         /\ factories' = factories ]_vars

\* C18: a run in which an Error was raised has saved no file, neither
\* before the Error nor after it: whenever an inline-object or cycle error
\* has been raised, nothing is on disk, and the state in which it is raised
\* is the last of the run.
C18_NothingSavedOnError ==
  /\ error.kind # "none" => disk = <<>>
  /\ pc = "failed" <=> error.kind # "none"
  /\ pc = "failed" => ~ENABLED Next

\* generateTokens threw on a cycle after it had filled the in-memory tokens
\* file of a program with an injectable declaration
C18_Witness ==
  /\ pc = "failed"
  /\ error.kind = "cycle"
  /\ tokensFile.imports # <<>>
  /\ factories # <<>>
  /\ disk = <<>>

\* collectFactories is at an injectable callable without call signature
AtUnresolvable ==
  /\ AtInjectable
  /\ FactoryWork(prog)[cur].node.kind # "class"
  /\ FactoryWork(prog)[cur].node.sigs = <<>>

\* the names of the non-primitive parameter types of the first n
\* declarations that get a factory record
ParamTypeNames(n) ==
  UNION {{getTypeName(t) : t \in Range(NonPrimitiveParams(InjectableItems[i].node))} :
           i \in 1..n}

DetectionComplete ==
  \A k \in 1..Len(DetectWork(prog)) :
    (/\ DetectWork(prog)[k].node.exported
     /\ DetectWork(prog)[k].node.name # ""
     /\ ~hasTag(DetectWork(prog)[k].node, "Token")
     /\ \E b \in 1..Len(DetectWork(prog)[k].node.ext) :
          /\ SymbolName(DetectWork(prog)[k].node.ext[b]) # ""
          /\ MapHas(tokens, SymbolName(DetectWork(prog)[k].node.ext[b])))
    => MapHas(tokens, DetectWork(prog)[k].node.name)

\* C20: auto-detection is transitive and complete.  When autoDetectTokens
\* returns, every exported alias or interface whose target or some extended
\* type has a token has a token too, also where that base got its token
\* from auto-detection, in any order of the declarations.
C20_AutoDetectionComplete ==
  [][(pc = "autoDetect" /\ pc' # "autoDetect") => DetectionComplete']_vars

\* the name is registered by an annotated declaration of the program
RegisteredByAnnotation(name) ==
  \E k \in 1..Len(TokenWork(prog)) :
    TokenWork(prog)[k].node.name = name /\ Registers(TokenWork(prog)[k].node)

\* the k-th declaration autoDetectTokens looks at is the only declaration
\* of its name, carries no annotation and derives from the one base
\* ext[1], registered by annotation: auto-detection gives it a token
DerivedOfRegistered(k) ==
  /\ DetectWork(prog)[k].node.exported
  /\ DetectWork(prog)[k].node.name # ""
  /\ DetectWork(prog)[k].node.tags = {}
  /\ Len(DetectWork(prog)[k].node.ext) = 1
  /\ RegisteredByAnnotation(SymbolName(DetectWork(prog)[k].node.ext[1]))
  /\ Cardinality({j \in 1..Len(TokenWork(prog)) :
                    TokenWork(prog)[j].node.name = DetectWork(prog)[k].node.name}) = 1

\* the tokens of the named non-primitive generic arguments of a type
GenericTokensOf(type) ==
  LET named == SelectSeq(type.args, LAMBDA t : ~isPrimitive(getTypeName(t)))
  IN [i \in 1..Len(named) |-> TokenName(getTypeName(named[i]))]

\* the declaration of tokens.ts for the token is emitted with this metadata
EmittedWith(tokenName, impl, gens) ==
  \E i \in 1..Len(tokensFile.decls) :
    /\ tokensFile.decls[i].name = tokenName
    /\ tokensFile.decls[i].implements = impl
    /\ tokensFile.decls[i].generics = gens

\* C21: once generateTokens has returned, the token of every auto-detected
\* type U derived from a tokenized base H is emitted with implements =
\* [HToken] and generics = the tokens of the named non-primitive generic
\* arguments of the base in argument order, each of them declared before
\* UToken; the implements entry is there also when the base takes no
\* generic argument.
C21_DerivedTokenMetadata ==
  GenerationSucceeded =>
    \A k \in 1..Len(DetectWork(prog)) :
      DerivedOfRegistered(k) =>
        /\ EmittedWith(TokenName(DetectWork(prog)[k].node.name),
                       <<TokenName(SymbolName(DetectWork(prog)[k].node.ext[1]))>>,
                       GenericTokensOf(DetectWork(prog)[k].node.ext[1]))
        /\ \A g \in Range(GenericTokensOf(DetectWork(prog)[k].node.ext[1])) :
             EmittedBefore(g, TokenName(DetectWork(prog)[k].node.name))

\* C22: an exported type declaration with the legacy @Token tag is
\* registered as one with @Service: once collectTokens has returned its
\* name has the token "<name>Token", of single cardinality unless the
\* declaration says @MultiService, and once generateTokens has returned
\* that token is in the emitted list.
C22_LegacyTokenRegistered ==
  \A k \in 1..Len(TokenWork(prog)) :
    (/\ TokenWork(prog)[k].node.exported
     /\ TokenWork(prog)[k].node.name # ""
     /\ hasTag(TokenWork(prog)[k].node, "Token"))
    => /\ pc # "collectTokens"
            => MapGet(tokens, TokenWork(prog)[k].node.name)
                 = TokenName(TokenWork(prog)[k].node.name)
       /\ (pc # "collectTokens" /\ ~RegisteredByAnnotation(TokenWork(prog)[k].node.name))
            => TokenWork(prog)[k].node.name \notin multiServices
       /\ GenerationSucceeded
            => Contains(EmittedNames, TokenName(TokenWork(prog)[k].node.name))

\* the declaration of the auto-detected name, where it is the only one
DetectedDecl(name) ==
  DetectWork(prog)[CHOOSE k \in 1..Len(DetectWork(prog)) :
                     DetectWork(prog)[k].node.name = name].node

\* the extended type of decl that auto-detection took the token from
DetectedBase(decl, from) ==
  decl.ext[CHOOSE b \in 1..Len(decl.ext) :
             /\ SymbolName(decl.ext[b]) = from
             /\ \A j \in 1..(b - 1) : SymbolName(decl.ext[j]) # from]

\* C23: first match wins, once.  For an auto-detected interface the base
\* it was detected from, the first of its extends clause that had a token,
\* is the base the metadata of its token comes from, and no other base
\* contributes: the edges of its token are tokens of generic arguments of that
\* base, and once generateTokens has returned the token is emitted with
\* implements = [token of that base] and generics = the tokens of that
\* base's arguments whenever that base has named non-primitive arguments,
\* and with no other metadata otherwise.
C23_FirstMatchWins ==
  \A e \in Range(detected) :
    (/\ Cardinality({j \in 1..Len(TokenWork(prog)) :
                       TokenWork(prog)[j].node.name = e.name}) = 1
     /\ DetectedDecl(e.name).kind = "iface")
    => /\ MapHas(tokens, e.from)
       /\ Range(DepsOf(tokenDeps, TokenName(e.name)))
            \subseteq Range(GenericTokensOf(DetectedBase(DetectedDecl(e.name), e.from)))
       /\ GenerationSucceeded =>
            \/ EmittedWith(TokenName(e.name), <<TokenName(e.from)>>,
                           GenericTokensOf(DetectedBase(DetectedDecl(e.name), e.from)))
            \/ /\ GenericTokensOf(DetectedBase(DetectedDecl(e.name), e.from)) = <<>>
               /\ EmittedWith(TokenName(e.name), <<>>, <<>>)

\* C24: once generateTokens has returned, the order it emitted is a total
\* order over the registry: every token of the registry, those minted for
\* generic arguments during the graph loop included, is in sortedTokens
\* exactly once and declared in tokens.ts exactly once, sortedTokens holds
\* nothing else, and the declarations emitted from it are in its order.
C24_OrderCoversRegistry ==
  GenerationSucceeded =>
    /\ \A t \in Range(MapValues(tokens)) :
         Occurrences(sortedTokens, t) = 1 /\ Occurrences(EmittedNames, t) = 1
    /\ Range(sortedTokens) \subseteq Range(MapValues(tokens))
    /\ Len(EmittedNames) >= Len(sortedTokens)
    /\ SubSeq(EmittedNames, 1, Len(sortedTokens)) = sortedTokens

\* generateTokens has returned for a program without factories in which
\* the token of V was minted for a generic argument during the graph loop
C24_Witness ==
  /\ GenerationSucceeded
  /\ factories = <<>>
  /\ Contains(sortedTokens, "VToken")
  /\ Len(sortedTokens) >= 3
  /\ \E i \in 1..Len(tokenDeps) : Contains(tokenDeps[i].deps, "VToken")

\* C25: after collectFactories the registry is read-only.  No step of
\* generateTokens, generateFactories, generateContainers or of the final
\* saves adds an entry to the registry or changes one.
C25_RegistryFrozenAfterCollection ==
  [][(pc \in {"graph", "emitTokens", "generateFactories", "generateContainers", "save"})
       => tokens' = tokens]_vars

\* C26: resolution terminates.  Every run reaches the end of run() or an
\* Error, also for a type that is its own generic argument (A extends H<A>)
\* and while the graph loop adds tokens to the registry it iterates.
C26_RunTerminates == <>(pc \in {"done", "failed"})

\* the run has ended on the self-reference of a declaration (an edge from
\* a token to itself) after the graph loop had iterated over a token that
\* was minted for a generic argument during the loop
C26_Witness ==
  /\ pc = "failed"
  /\ error.kind = "cycle"
  /\ Contains(DepsOf(tokenDeps, error.named[1]), error.named[1])
  /\ \E i \in 1..Len(tokenDeps) :
       \E j \in (i + 1)..Len(tokenDeps) :
         /\ Contains(tokenDeps[i].deps, tokenDeps[j].token)
         /\ ~RegisteredByAnnotation(tokens[j].name)
         /\ \A e \in Range(detected) : e.name # tokens[j].name

\* C27: every binding target of a container is a token that was emitted.
\* Once the run has ended, a registration under Factories.<name>Token has
\* its per-factory token declared in factories.ts, and a registration under
\* a registry token has that token declared in tokens.ts.
C27_TargetsAreEmitted ==
  pc = "done" =>
    \A reg \in RegistrationsIn(disk) :
      IF reg.target.space = "Factories"
      THEN \E i \in 1..Len(factoriesFile.decls) :
             /\ factoriesFile.decls[i].kind = "token"
             /\ factoriesFile.decls[i].name = reg.target.id
      ELSE Contains(EmittedNames, reg.target.id)

\* every record of a factory that is no multi-implementation lists the
\* token of its produced type, where the registry has one, in its implements
ImplementsFollowRegistry ==
  \A i \in 1..Len(factories) :
    (~factories[i].isMultiServiceImpl /\ MapGet(tokens, ProducedTypeName(i)) # "")
      => Contains(factories[i].metadata.implements, MapGet(tokens, ProducedTypeName(i)))

\* C28: a factory's record does not depend on the processing order.  The
\* programs hold every ordering of their injectable declarations, the one
\* in which the declaration that mints the token of a produced type comes
\* first among them; there the record lists that token in its implements.
\* So when collectFactories returns, in whatever order it ran, the record of
\* every factory whose produced type has a token lists that token.
C28_RecordsOrderIndependent ==
  [][(pc = "collectFactories" /\ pc' \notin {"collectFactories", "failed"})
       => ImplementsFollowRegistry']_vars

\* C29: distinct modules give distinct container files.  Once the run has
\* ended, any two different module names of the factory list have different
\* container paths, and the registration of every factory is in the
\* container file of its module on disk.
C29_ModulesHaveOwnContainers ==
  pc = "done" =>
    /\ \A m1, m2 \in Range(ModulesOf(factories)) :
         m1 # m2 => ContainerPath(m1) # ContainerPath(m2)
    /\ \A i \in 1..Len(factories) :
         \E k \in 1..Len(disk) :
           /\ disk[k].path = ContainerPath(factories[i].module)
           /\ Contains(disk[k].content.registrations, Registration(factories[i], tokens))

Unregistered(toks, seq) ==
  Dedup(SelectSeq([i \in 1..Len(seq) |-> getTypeName(seq[i])],
                  LAMBDA n : ~MapHas(toks, n)))

TypeOK ==
  /\ pc \in Range(Phases) \cup {"failed"}
  /\ (pc = "failed") = (error.kind # "none")
====
